---- MODULE Spec2Model ----
(***************************************************************************)
(* A state-machine model of lookatme's TuiRenderer                         *)
(* (src/lookatme/render/tuirenderer.py): the handler registry, the token   *)
(* dispatcher, the recursive render of a token tree as an explicit call    *)
(* stack, and the renderer's localized_state dictionary.                   *)
(*                                                                         *)
(* Python values are records tagged by their type in field "w"; Python     *)
(* strings are TLA+ strings; a raised exception unwinds the whole call     *)
(* stack in one step, because no function of the renderer catches one.     *)
(*                                                                         *)
(* The table wrapper of src/lookatme/render/markdown_block.py              *)
(* (render_table) is a component of its own, which the renderer object     *)
(* never calls: it has its own variables and its own specification,        *)
(* TableSpec.                                                              *)
(***************************************************************************)
EXTENDS Integers, Sequences, FiniteSets, TLC

VARIABLES methods, localized_state, stack, ret, outcome, ncalls,
          table, padding, pending

\* the state of the renderer object and of its running call
render_vars == <<methods, localized_state, stack, ret, outcome, ncalls>>

\* the state of the table wrapper render_table builds
table_vars == <<table, padding, pending>>

vars == <<methods, localized_state, stack, ret, outcome, ncalls,
          table, padding, pending>>

(***************************************************************************)
(* Bounds of the model.                                                    *)
(***************************************************************************)
\* top-level render calls made on the one renderer
MaxCalls == 2
\* depth of effect tokens nested in one another in the inputs
MaxNest == 2
\* items of a list in the inputs
MaxItems == 2
\* depth of lists nested in one another in the inputs
MaxListDepth == 2
\* children of a block quote in the inputs
MaxQuoteLen == 2

(***************************************************************************)
(* Python values.                                                          *)
(***************************************************************************)
\* a dictionary key that is absent
NoKey == "<absent>"

None == [w |-> "None"]

Str(s) == [w |-> "str", s |-> s]

PyList(items) == [w |-> "list", items |-> items]

PyTuple(spec, text) == [w |-> "tuple", spec |-> spec, text |-> text]

Divider == [w |-> "Divider"]

ClickableText(markup) == [w |-> "ClickableText", text |-> markup]

\* a token: the keys the renderer reads ("start", "ordered" and "level" are keys
\* of token["attrs"]; has_start tells whether attrs holds "start")
Token(type, raw, children) ==
    [type |-> type, raw |-> raw, children |-> children, bullet |-> NoKey,
     label |-> NoKey, ordered |-> FALSE, has_start |-> FALSE, start |-> 1,
     level |-> 0]

(***************************************************************************)
(* The style configuration (config.get_style()), read-only while rendering.*)
(***************************************************************************)
\* dict.get(key, default) on a dictionary modelled as a function
DictGet(dict, key, default) == IF key \in DOMAIN dict THEN dict[key] ELSE default

\* the numbering style by nesting depth: one style configuration, in which
\* every style the list handler accepts is in use
numbering == ("1" :> "alpha" @@ "2" :> "roman" @@ "default" :> "numeric")

\* the bullet glyphs by nesting depth
bullets == ("1" :> "*" @@ "2" :> "-" @@ "default" :> "+")

\* the heading levels that have a style of their own
HeadingKeys == {"1", "2", "3", "4"}

(***************************************************************************)
(* The handler registry and the attributes of the renderer object.         *)
(***************************************************************************)
\* the names register() is called with: a new discriminant and a built-in one
RegNames == {"wiki", "text"}

\* the register() calls made: a new discriminant whose handler returns a
\* widget ("widget") or returns nothing ("none"), and
\* an override of a built-in handler
Registrations == {<<"wiki", "widget">>, <<"wiki", "none">>, <<"text", "widget">>}

\* the handlers of the class that render their children through render_children
EffectOf == ("emphasis" :> "italics" @@ "strong" :> "underline"
             @@ "strikethrough" :> "strikethrough")

EffectHandlers == DOMAIN EffectOf

ContainerHandlers == {"paragraph", "block_text", "block_quote"}

LeafHandlers == {"text", "codespan", "linebreak", "softbreak", "blank_line",
                 "thematic_break", "block_code", "table", "link", "image"}

BuiltinHandlers ==
    LeafHandlers \cup EffectHandlers \cup ContainerHandlers \cup {"heading", "list"}

\* attributes of the object that are no functions of a token
DataAttributes == {"NAME", "loop", "_log", "localized_state"}

\* the other methods of the class, which object.__getattribute__ finds too
OtherMethods == {"register", "_get_method", "render_token", "render_tokens",
                 "render_children", "_add_effect", "render_table_bak",
                 "render_table_head", "render_table_body", "render_table_row",
                 "render_table_cell", "render_inline_html", "render_block_html",
                 "render_block_error", "__init__", "__call__"}

Attributes == BuiltinHandlers \cup DataAttributes \cup OtherMethods

\* _get_method falling back to a default handler (the line break's) for a name
\* that is neither an attribute nor registered, instead of raising
GetMethodFallsBack(name) ==
    IF name \in Attributes
    THEN [kind |-> "attribute", name |-> name]
    ELSE IF name \in DOMAIN methods /\ methods[name] # NoKey
         THEN [kind |-> "registered", name |-> name]
         ELSE [kind |-> "attribute", name |-> "linebreak"]

\* _get_method: the object's own attribute first, the registry only when the
\* object has no attribute of that name, AttributeError when neither has it
GetMethod(name) ==
    IF name \in Attributes
    THEN [kind |-> "attribute", name |-> name]
    ELSE IF name \in DOMAIN methods /\ methods[name] # NoKey
         THEN [kind |-> "registered", name |-> name]
         ELSE [kind |-> "AttributeError", name |-> name]

(***************************************************************************)
(* localized_state: a dictionary with the keys "oldstyle", "list_level"    *)
(* and "headings".  The renderer reads a key that may be absent only       *)
(* through get(key, default), so a key that is absent is modelled as the   *)
(* key holding that default: {"fg": "", "bg": ""}, 0, and no heading style *)
(* (written "").  The default 1 of the read on leaving a list never        *)
(* applies: the handler has set the key on entry.                          *)
(***************************************************************************)
EmptyStyle == [fg |-> "", bg |-> ""]

EmptyState == [oldstyle |-> EmptyStyle, list_level |-> 0, headings |-> ""]

\* localized_state.get("oldstyle", {"fg": "", "bg": ""})
GetOldStyle(ls) == ls.oldstyle

\* localized_state.get("list_level", default)
GetListLevel(ls) == ls.list_level

SetOldStyle(ls, style) == [ls EXCEPT !.oldstyle = style]

\* the style _add_effect makes active for the children
MergeEffect(oldstyle, addeffect) ==
    [fg |-> IF Len(oldstyle.fg) > 0
            THEN oldstyle.fg \o "," \o addeffect
            ELSE "default," \o addeffect,
     bg |-> IF Len(oldstyle.bg) = 0 THEN "default" ELSE oldstyle.bg]

\* _add_effect returning without putting the saved style back
RestoreStyleForgotten(ls, oldstyle) == ls

\* _add_effect putting the saved style back after the children are rendered
RestoreStyle(ls, oldstyle) == SetOldStyle(ls, oldstyle)

(***************************************************************************)
(* Widgets and the helpers of lookatme.utils the handlers call.            *)
(***************************************************************************)
\* old_styles left out of a styled_text call
NoStyle == [fg |-> NoKey, bg |-> NoKey]

\* utils.styled_text(text, new_styles, old_styles): a (spec, text) pair
StyledText(text, new_styles, old_styles) ==
    PyTuple([w |-> "spec", new |-> new_styles, old |-> old_styles], text)

\* utils.pile_or_listbox_add(container, widgets): a list is appended unit by
\* unit, anything else as one unit
PileOrListboxAdd(contents, res) ==
    IF res.w = "list" THEN contents \o res.items ELSE Append(contents, res)

\* _get_widget_text: the text of a ClickableText, any other unit as it is
GetWidgetText(widget) == IF widget.w = "ClickableText" THEN widget.text ELSE widget

MapWidgetText(units) == [n \in 1..Len(units) |-> GetWidgetText(units[n])]

RECURSIVE JoinRaw(_)
\* "".join(x["raw"] for x in children)
JoinRaw(children) ==
    IF children = <<>> THEN "" ELSE Head(children).raw \o JoinRaw(Tail(children))

\* the link handler (image calls it): the children's raw text, never dispatched
Link(token) ==
    IF \E n \in 1..Len(token.children) : token.children[n].raw = NoKey
    THEN [err |-> "KeyError", val |-> None]
    ELSE LET raw_link_text == JoinRaw(token.children)
             styled == StyledText(PyList(<<Str(raw_link_text)>>), "link", NoStyle)
         IN  IF token.label # NoKey
             THEN [err |-> "",
                   val |-> PyList(<<ClickableText(styled),
                                    ClickableText(PyList(<<StyledText(
                                        PyList(<<Str(token.label)>>), "link", NoStyle)>>))
                                  >>)]
             ELSE [err |-> "",
                   val |-> PyList(<<ClickableText(PyTuple(
                                [w |-> "LinkIndicatorSpec", text |-> raw_link_text,
                                 spec |-> styled.spec], styled.text))>>)]

\* the handlers that render no children: [err, val], err "" when val is returned
Leaf(name, token) ==
    CASE name \in {"text", "codespan", "block_code"} /\ token.raw = NoKey ->
             [err |-> "KeyError", val |-> None]
      [] name = "text" ->
             [err |-> "", val |-> PyList(<<ClickableText(Str(token.raw))>>)]
      [] name = "codespan" ->
             [err |-> "",
              val |-> PyList(<<[w |-> "pygments", text |-> " " \o token.raw \o " ",
                                plain |-> TRUE]>>)]
      [] name \in {"linebreak", "softbreak"} ->
             [err |-> "", val |-> PyList(<<Divider>>)]
      [] name = "blank_line" ->
             [err |-> "", val |-> PyList(<<Divider, Divider>>)]
      [] name = "thematic_break" ->
             [err |-> "", val |-> PyList(<<[w |-> "Pile", contents |-> <<[w |-> "hrule"]>>]>>)]
      [] name = "block_code" ->
             [err |-> "",
              val |-> PyList(<<Divider,
                               [w |-> "pygments", text |-> token.raw, plain |-> FALSE],
                               Divider>>)]
      [] name = "table" ->
             [err |-> "", val |-> PyList(<<ClickableText(Str("rendered table"))>>)]
      [] name \in {"link", "image"} -> Link(token)

\* what a registered handler returns for a token
Registered(name, token) ==
    IF methods[name] = "none" THEN None
    ELSE PyList(<<[w |-> "registered", name |-> name]>>)

(***************************************************************************)
(* The call stack.  A frame is one activation of a function of the         *)
(* renderer; ret is the value the callee has just returned to the top      *)
(* frame; outcome is the record of the current or the last top-level call. *)
(***************************************************************************)
NoRet == [pending |-> FALSE, val |-> None, from |-> ""]

Return(val, from) == [pending |-> TRUE, val |-> val, from |-> from]

CallFrame == [fn |-> "__call__"]

RenderTokensFrame(tokens) ==
    [fn |-> "render_tokens", tokens |-> tokens, i |-> 1, body |-> <<>>]

Top == stack[Len(stack)]

Pop == SubSeq(stack, 1, Len(stack) - 1)

ReplaceTop(frame) == [stack EXCEPT ![Len(stack)] = frame]

Idle == [status |-> "idle", err |-> "", result |-> None, tokens |-> <<>>,
         entry |-> EmptyState, depth |-> 0]

\* an exception leaves every frame at once: nothing catches it, nothing is undone
Raise(err) ==
    /\ stack' = <<>>
    /\ ret' = NoRet
    /\ outcome' = [outcome EXCEPT !.status = "raised", !.err = err,
                                  !.depth = Len(stack)]
    /\ UNCHANGED <<methods, localized_state, ncalls>>

\* the token render_token is about to be called with
InItemLoop ==
    /\ Top.fn = "list"
    /\ Top.k <= Len(Top.token.children)
    /\ Top.j >= 1
    /\ Top.j <= Len(Top.token.children[Top.k].children)

Dispatching ==
    /\ stack # <<>>
    /\ ~ret.pending
    /\ \/ Top.fn = "render_tokens" /\ Top.i <= Len(Top.tokens)
       \/ InItemLoop

CurTok ==
    IF Top.fn = "render_tokens" THEN Top.tokens[Top.i]
    ELSE Top.token.children[Top.k].children[Top.j]

\* render_token: the handler _get_method finds for the token about to be rendered
Found == GetMethod(CurTok.type)

(***************************************************************************)
(* register and __call__.                                                  *)
(***************************************************************************)
Register(name, behaviour) ==
    /\ stack = <<>>
    /\ methods' = [methods EXCEPT ![name] = behaviour]
    /\ UNCHANGED <<localized_state, stack, ret, outcome, ncalls>>
    /\ UNCHANGED table_vars

Call(tokens) ==
    /\ stack = <<>>
    /\ ncalls < MaxCalls
    /\ ncalls' = ncalls + 1
    /\ stack' = <<CallFrame, RenderTokensFrame(tokens)>>
    /\ ret' = NoRet
    /\ outcome' = [status |-> "running", err |-> "", result |-> None,
                   tokens |-> tokens, entry |-> localized_state, depth |-> 0]
    /\ UNCHANGED <<methods, localized_state>>
    /\ UNCHANGED table_vars

CallReturn ==
    /\ stack # <<>>
    /\ Top.fn = "__call__"
    /\ ret.pending
    /\ stack' = <<>>
    /\ ret' = NoRet
    /\ outcome' = [outcome EXCEPT !.status = "returned", !.result = ret.val]
    /\ UNCHANGED <<methods, localized_state, ncalls>>
    /\ UNCHANGED table_vars

(***************************************************************************)
(* render_tokens: the loop over a token sequence.                          *)
(***************************************************************************)
RenderTokensAdd ==
    /\ stack # <<>>
    /\ Top.fn = "render_tokens"
    /\ ret.pending
    /\ IF ret.val.w = "None"
       THEN Raise("Exception")
       ELSE /\ stack' = ReplaceTop([Top EXCEPT !.body = PileOrListboxAdd(@, ret.val),
                                               !.i = @ + 1])
            /\ ret' = NoRet
            /\ UNCHANGED <<methods, localized_state, outcome, ncalls>>
    /\ UNCHANGED table_vars

RenderTokensReturn ==
    /\ stack # <<>>
    /\ Top.fn = "render_tokens"
    /\ ~ret.pending
    /\ Top.i > Len(Top.tokens)
    /\ stack' = Pop
    /\ ret' = Return(PyList(Top.body), "render_tokens")
    /\ UNCHANGED <<methods, localized_state, outcome, ncalls>>
    /\ UNCHANGED table_vars

(***************************************************************************)
(* render_token: one action for each way the dispatch of a token goes on.  *)
(***************************************************************************)
DispatchUnknown ==
    /\ Dispatching
    /\ Found.kind = "AttributeError"
    /\ Raise("AttributeError")
    /\ UNCHANGED table_vars

\* an attribute that is no function: calling it raises TypeError
DispatchNotCallable ==
    /\ Dispatching
    /\ Found.kind = "attribute"
    /\ Found.name \in DataAttributes
    /\ Raise("TypeError")
    /\ UNCHANGED table_vars

DispatchRegistered ==
    /\ Dispatching
    /\ Found.kind = "registered"
    /\ ret' = Return(Registered(Found.name, CurTok), Found.name)
    /\ UNCHANGED <<methods, localized_state, stack, outcome, ncalls>>
    /\ UNCHANGED table_vars

DispatchLeaf ==
    /\ Dispatching
    /\ Found.kind = "attribute"
    /\ Found.name \in LeafHandlers
    /\ LET res == Leaf(Found.name, CurTok)
       IN  IF res.err # ""
           THEN Raise(res.err)
           ELSE /\ ret' = Return(res.val, Found.name)
                /\ UNCHANGED <<methods, localized_state, stack, outcome, ncalls>>
    /\ UNCHANGED table_vars

\* render_children(token) is render_tokens(token["children"])
EnterChildren(frame) ==
    stack' = stack \o <<frame, RenderTokensFrame(CurTok.children)>>

EnterContainer ==
    /\ Dispatching
    /\ Found.kind = "attribute"
    /\ Found.name \in ContainerHandlers
    /\ EnterChildren([fn |-> Found.name, token |-> CurTok])
    /\ UNCHANGED <<methods, localized_state, ret, outcome, ncalls>>
    /\ UNCHANGED table_vars

EnterEffect ==
    /\ Dispatching
    /\ Found.kind = "attribute"
    /\ Found.name \in EffectHandlers
    /\ LET addeffect == EffectOf[Found.name]
           oldstyle == GetOldStyle(localized_state)
       IN  /\ localized_state' =
                  SetOldStyle(localized_state, MergeEffect(oldstyle, addeffect))
           /\ EnterChildren([fn |-> "_add_effect", token |-> CurTok,
                             addeffect |-> addeffect, oldstyle |-> oldstyle])
    /\ UNCHANGED <<methods, ret, outcome, ncalls>>
    /\ UNCHANGED table_vars

\* the style of the heading's level, "default" when the level has none
HeadingStyle(level) ==
    IF ToString(level) \in HeadingKeys THEN ToString(level) ELSE "default"

EnterHeading ==
    /\ Dispatching
    /\ Found.kind = "attribute"
    /\ Found.name = "heading"
    /\ LET style == HeadingStyle(CurTok.level)
       IN  /\ localized_state' = [localized_state EXCEPT !.headings = style]
           /\ EnterChildren([fn |-> "heading", token |-> CurTok, style |-> style])
    /\ UNCHANGED <<methods, ret, outcome, ncalls>>
    /\ UNCHANGED table_vars

(***************************************************************************)
(* The handlers going on after render_children has returned.               *)
(***************************************************************************)
Returned(fn) == stack # <<>> /\ Top.fn = fn /\ ret.pending

HandlerReturn(val, from) ==
    /\ stack' = Pop
    /\ ret' = Return(val, from)

AddEffectExit ==
    /\ Returned("_add_effect")
    /\ LET text_specs == MapWidgetText(ret.val.items)
           res_text == ClickableText(PyList(text_specs))
       IN  /\ localized_state' = RestoreStyle(localized_state, Top.oldstyle)
           /\ HandlerReturn(StyledText(res_text, Top.addeffect, Top.oldstyle),
                            Top.token.type)
    /\ UNCHANGED <<methods, outcome, ncalls>>
    /\ UNCHANGED table_vars

ParagraphExit ==
    /\ Returned("paragraph")
    /\ HandlerReturn(PyList(<<Divider,
                              ClickableText(PyList(MapWidgetText(ret.val.items))),
                              Divider>>), "paragraph")
    /\ UNCHANGED <<methods, localized_state, outcome, ncalls>>
    /\ UNCHANGED table_vars

BlockTextExit ==
    /\ Returned("block_text")
    /\ HandlerReturn(PyList(ret.val.items \o <<Divider>>), "block_text")
    /\ UNCHANGED <<methods, localized_state, outcome, ncalls>>
    /\ UNCHANGED table_vars

HeadingExit ==
    /\ Returned("heading")
    /\ LET rendered == ret.val.items
           styled_text == [n \in 1..Len(rendered) |->
                              StyledText(rendered[n], Top.style, NoStyle)]
           prefix == StyledText(Str("prefix"), Top.style, NoStyle)
           suffix == StyledText(Str("suffix"), Top.style, NoStyle)
       IN  /\ localized_state' = [localized_state EXCEPT !.headings = ""]
           /\ HandlerReturn(PyList(<<Divider,
                                     ClickableText(PyList(<<prefix>> \o styled_text
                                                          \o <<suffix>>)),
                                     Divider>>), "heading")
    /\ UNCHANGED <<methods, outcome, ncalls>>
    /\ UNCHANGED table_vars

\* the trimming of the quote's pile: [err, contents]
TrimQuote(contents) ==
    IF contents = <<>> THEN [err |-> "IndexError", contents |-> contents]
    ELSE LET first == IF contents[1].w = "Divider" THEN Tail(contents) ELSE contents
         IN  IF first = <<>> THEN [err |-> "IndexError", contents |-> first]
             ELSE IF first[Len(first)].w = "Divider"
                  THEN [err |-> "", contents |-> SubSeq(first, 1, Len(first) - 1)]
                  ELSE [err |-> "", contents |-> first]

BlockQuoteExit ==
    /\ Returned("block_quote")
    /\ LET pile == TrimQuote(PileOrListboxAdd(<<>>, ret.val))
       IN  IF pile.err # ""
           THEN Raise(pile.err)
           ELSE /\ HandlerReturn(PyList(<<Divider,
                                          [w |-> "LineBox", contents |-> pile.contents],
                                          Divider>>), "block_quote")
                /\ UNCHANGED <<methods, localized_state, outcome, ncalls>>
    /\ UNCHANGED table_vars

(***************************************************************************)
(* The list handler.                                                       *)
(***************************************************************************)
Lowercase == <<"a", "b", "c", "d", "e", "f", "g", "h", "i", "j", "k", "l", "m",
               "n", "o", "p", "q", "r", "s", "t", "u", "v", "w", "x", "y", "z">>

\* chr(code) for the codes from ord("a") to ord("~")
Chr(code) ==
    CASE code \in 97..122 -> Lowercase[code - 96]
      [] code = 123 -> "{"
      [] code = 124 -> "|"
      [] code = 125 -> "}"
      [] code = 126 -> "~"

RomanInts == <<1000, 900, 500, 400, 100, 90, 50, 40, 10, 9, 5, 4, 1>>

RomanNums == <<"m", "cm", "d", "cd", "c", "xc", "l", "xl", "x", "ix", "v", "iv", "i">>

RECURSIVE RomanFrom(_, _)
RomanFrom(integer, n) ==
    IF n > Len(RomanInts) THEN ""
    ELSE IF integer >= RomanInts[n]
         THEN RomanNums[n] \o RomanFrom(integer - RomanInts[n], n)
         ELSE RomanFrom(integer, n + 1)

\* utils.int_to_roman
IntToRoman(integer) == RomanFrom(integer, 1)

\* the "alpha" numbering wrapping around after "z"
AlphaCycling(x) == Lowercase[((x - 1) % 26) + 1]

\* the "alpha" numbering: chr(ord("a") + x - 1)
Alpha(x) == Chr(97 + x - 1)

\* sequence(x) of the numbering style
Sequence(list_marker_type, x) ==
    CASE list_marker_type = "numeric" -> ToString(x)
      [] list_marker_type = "alpha" -> Alpha(x)
      [] list_marker_type = "roman" -> IntToRoman(x)

\* get_marker_text(x) of a list frame
GetMarkerText(frame, x) ==
    IF frame.token.ordered
    THEN Sequence(frame.list_marker_type, x) \o frame.token.bullet \o " "
    ELSE DictGet(bullets, ToString(frame.list_level), bullets["default"]) \o " "

EnterList ==
    /\ Dispatching
    /\ Found.kind = "attribute"
    /\ Found.name = "list"
    /\ LET list_level == GetListLevel(localized_state) + 1
       IN  /\ localized_state' = [localized_state EXCEPT !.list_level = list_level]
           /\ stack' = Append(stack,
                  [fn |-> "list", token |-> CurTok, list_level |-> list_level,
                   list_marker_type |->
                       DictGet(numbering, ToString(list_level), numbering["default"]),
                   start |-> IF CurTok.has_start THEN CurTok.start ELSE 1,
                   max_marker_width |-> 2, marker_col_width |-> 0,
                   marker_text |-> "", k |-> 1, j |-> 0,
                   list_item_pile |-> <<>>, outerlist_pile |-> <<>>])
    /\ UNCHANGED <<methods, ret, outcome, ncalls>>
    /\ UNCHANGED table_vars

\* the head of the loop over the items: the marker and the width of its column
ListItemBegin ==
    /\ stack # <<>>
    /\ Top.fn = "list"
    /\ ~ret.pending
    /\ Top.k <= Len(Top.token.children)
    /\ Top.j = 0
    /\ LET marker_text == GetMarkerText(Top, Top.start)
           max_marker_width == IF Len(marker_text) > Top.max_marker_width
                               THEN Len(marker_text) ELSE Top.max_marker_width
       IN  stack' = ReplaceTop([Top EXCEPT !.marker_text = marker_text,
                                           !.start = @ + 1,
                                           !.max_marker_width = max_marker_width,
                                           !.marker_col_width = max_marker_width,
                                           !.list_item_pile = <<>>,
                                           !.j = 1])
    /\ UNCHANGED <<methods, localized_state, ret, outcome, ncalls>>
    /\ UNCHANGED table_vars

\* the result of render_token added to the item's pile, whatever it is
ListTokAdd ==
    /\ Returned("list")
    /\ stack' = ReplaceTop([Top EXCEPT !.list_item_pile = PileOrListboxAdd(@, ret.val),
                                       !.j = @ + 1])
    /\ ret' = NoRet
    /\ UNCHANGED <<methods, localized_state, outcome, ncalls>>
    /\ UNCHANGED table_vars

ListItemEnd ==
    /\ stack # <<>>
    /\ Top.fn = "list"
    /\ ~ret.pending
    /\ Top.k <= Len(Top.token.children)
    /\ Top.j > Len(Top.token.children[Top.k].children)
    /\ LET res == [w |-> "Columns", width |-> Top.marker_col_width,
                   marker |-> Top.marker_text, contents |-> Top.list_item_pile]
       IN  stack' = ReplaceTop([Top EXCEPT !.outerlist_pile = PileOrListboxAdd(@, res),
                                           !.k = @ + 1,
                                           !.j = 0])
    /\ UNCHANGED <<methods, localized_state, ret, outcome, ncalls>>
    /\ UNCHANGED table_vars

\* the nesting depth counted down once the items are rendered
LeaveList(ls) ==
    [ls EXCEPT !.list_level = GetListLevel(ls) - 1]

ListExit ==
    /\ stack # <<>>
    /\ Top.fn = "list"
    /\ ~ret.pending
    /\ Top.k > Len(Top.token.children)
    /\ localized_state' = LeaveList(localized_state)
    /\ IF localized_state'.list_level = 0
       THEN HandlerReturn(PyList(<<Divider,
                                   [w |-> "Padding", contents |-> Top.outerlist_pile],
                                   Divider>>), "list")
       ELSE HandlerReturn([w |-> "Pile", contents |-> Top.outerlist_pile], "list")
    /\ UNCHANGED <<methods, outcome, ncalls>>
    /\ UNCHANGED table_vars

(***************************************************************************)
(* The table wrapper: render_table of markdown_block.py.  The Table widget *)
(* (lookatme.widgets.table) is a collaborator: what is modelled of it is   *)
(* that it has a current total width, may recompute it after construction, *)
(* and emits a "change" notification when it does.  A notification emitted *)
(* is delivered later to the callbacks connected to the signal.            *)
(***************************************************************************)
\* the largest total width of a table
MaxTotalWidth == 6
\* notifications emitted and not yet delivered
MaxPending == 3

\* before render_table is called there is no table and no wrapper
NoTable == [built |-> FALSE, total_width |-> 0, change |-> {}]

NoPadding == [built |-> FALSE, width |-> 0, set_by |-> ""]

\* the total widths a table can have
TotalWidths == 0..MaxTotalWidth

\* Table(cells, headers=headers, aligns=aligns): a table of some total width,
\* nothing connected to its signals yet
Table(total_width) == [built |-> TRUE, total_width |-> total_width, change |-> {}]

\* urwid.Padding(table, width=table.total_width + 2, align="center")
Padding(t) == [built |-> TRUE, width |-> t.total_width + 2, set_by |-> "render_table"]

\* urwid.connect_signal(table, "change", table_changed)
ConnectSignal(t, callback) == [t EXCEPT !.change = @ \cup {callback}]

\* a callback that leaves the wrapper at the width it was built with
TableChangedKeepsWidth(p, t) == p

\* table_changed: the wrapper's width set from the table's current total width
TableChanged(p, t) == [p EXCEPT !.width = t.total_width + 2, !.set_by = "table_changed"]

\* render_table(token, body, stack, loop): the table, its wrapper, and the
\* callback connected to the table's "change" signal; the wrapper is returned
RenderTable(total_width) ==
    /\ ~table.built
    /\ LET t == Table(total_width)
       IN  /\ padding' = Padding(t)
           /\ table' = ConnectSignal(t, "table_changed")
    /\ pending' = 0
    /\ UNCHANGED render_vars

\* the table recomputes its total width and emits a "change" notification
TableRecompute(total_width) ==
    /\ table.built
    /\ pending < MaxPending
    /\ table' = [table EXCEPT !.total_width = total_width]
    /\ pending' = pending + 1
    /\ UNCHANGED padding
    /\ UNCHANGED render_vars

\* a notification is delivered: the callbacks connected to "change" are called
DeliverChange ==
    /\ table.built
    /\ pending > 0
    /\ padding' = IF "table_changed" \in table.change
                  THEN TableChanged(padding, table) ELSE padding
    /\ pending' = pending - 1
    /\ UNCHANGED table
    /\ UNCHANGED render_vars

(***************************************************************************)
(* The token sequences the renderer is called with.                        *)
(***************************************************************************)
TextA == Token("text", "a", <<>>)

TextB == Token("text", "b", <<>>)

\* a discriminant that is no attribute of the renderer and is never registered
Footnote == Token("footnote", "f", <<>>)

\* a discriminant that is no attribute of the renderer and may be registered
Wiki == Token("wiki", "w", <<>>)

Paragraph(children) == Token("paragraph", NoKey, children)

Heading(level, children) == [Token("heading", NoKey, children) EXCEPT !.level = level]

BlockText == Token("block_text", NoKey, <<TextA>>)

ListItem(children) == Token("list_item", NoKey, children)

UnorderedList(items) == [Token("list", NoKey, items) EXCEPT !.bullet = "-"]

OrderedList(items) ==
    [Token("list", NoKey, items) EXCEPT !.bullet = ".", !.ordered = TRUE]

OrderedListFrom(start, items) ==
    [OrderedList(items) EXCEPT !.has_start = TRUE, !.start = start]

\* effect tokens nested up to depth d, each followed by a sibling
EffectTrees[d \in Nat] ==
    IF d = 0 THEN {TextA}
    ELSE {TextA} \cup { Token(e, NoKey, <<c, TextB>>) :
                            e \in EffectHandlers, c \in EffectTrees[d - 1] }

\* effect tokens around a token whose rendering fails
FailingEffectTrees ==
    { Token("emphasis", NoKey, <<x>>) : x \in {Footnote, Wiki} }
    \cup { Token("strong", NoKey, <<Token("emphasis", NoKey, <<x>>), TextB>>) :
               x \in {Footnote, Wiki} }

EffectInputs ==
    { <<Paragraph(<<c>>)>> : c \in EffectTrees[MaxNest] \cup FailingEffectTrees }
    \cup { <<Heading(2, <<c>>)>> : c \in EffectTrees[1] \cup {Footnote} }
    \cup { <<Heading(5, <<TextA>>), Paragraph(<<TextB>>)>> }

DispatchInputs ==
    { <<t>> : t \in { Footnote, Wiki, TextA,
                      Token("NAME", NoKey, <<>>),
                      Token("block_html", "<div>", <<>>),
                      Token("block_error", NoKey, <<>>),
                      Token("table", NoKey, <<Token("table_head", NoKey, <<>>)>>),
                      Token("link", NoKey, <<TextA, TextB>>),
                      [Token("link", NoKey, <<TextA>>) EXCEPT !.label = "ref"],
                      Token("link", NoKey, <<Footnote>>),
                      Token("image", NoKey, <<Token("emphasis", NoKey, <<TextA>>)>>),
                      Token("codespan", "x", <<>>),
                      Token("block_code", "x", <<>>),
                      Token("thematic_break", NoKey, <<>>),
                      Token("blank_line", NoKey, <<>>) } }
    \cup { <<Wiki, TextA>>, <<TextA, Footnote>>,
           <<Token("block_html", "<div>", <<>>), Paragraph(<<TextA>>)>>,
           <<Token("block_error", NoKey, <<>>), Paragraph(<<TextA>>)>>,
           <<Paragraph(<<TextA, Footnote>>)>>,
           <<Paragraph(<<Wiki, TextA>>)>>,
           <<Paragraph(<<Token("softbreak", NoKey, <<>>), TextA>>)>> }

\* sequences of length 0..n over a set
SeqsUpTo(S, n) == UNION { [1..m -> S] : m \in 0..n }

QuoteUnits == { Paragraph(<<TextA>>), Token("linebreak", NoKey, <<>>), TextB }

QuoteInputs ==
    { <<Token("block_quote", NoKey, children)>> :
          children \in SeqsUpTo(QuoteUnits, MaxQuoteLen) }
    \cup { <<Token("block_quote", NoKey, <<Footnote>>)>> }

Items(n) == [m \in 1..n |-> ListItem(<<BlockText>>)]

\* flat lists of 1..MaxItems items, numbered from several starts
NumberedLists ==
    { OrderedList(Items(n)) : n \in 1..MaxItems }
    \cup { OrderedListFrom(s, Items(n)) : s \in {9, 26}, n \in 1..MaxItems }
    \cup { UnorderedList(Items(n)) : n \in 1..MaxItems }

\* what an item of a list holds: text, or a token whose rendering may fail,
\* or text and a list nested one level deeper
ItemBodies[d \in Nat] ==
    {<<BlockText>>, <<Footnote>>, <<Wiki>>}
    \cup IF d <= 1 THEN {}
         ELSE { <<BlockText, UnorderedList(<<ListItem(b), ListItem(<<BlockText>>)>>)>> :
                    b \in ItemBodies[d - 1] }

NestedLists ==
    { UnorderedList(<<ListItem(b), ListItem(<<BlockText>>)>>) :
          b \in ItemBodies[MaxListDepth] }

\* a list as the last unit of the one item of an unordered list
Inside(l) == UnorderedList(<<ListItem(<<BlockText, l>>)>>)

\* the numbered lists at the nesting depths 1, 2 and 3
ListInputs ==
    { <<l>> : l \in NumberedLists \cup NestedLists }
    \cup { <<Inside(l)>> : l \in NumberedLists }
    \cup { <<Inside(Inside(l))>> : l \in NumberedLists }

Inputs == EffectInputs \cup DispatchInputs \cup QuoteInputs \cup ListInputs

(***************************************************************************)
(* The renderer after __init__, and its steps.                             *)
(***************************************************************************)
Init ==
    /\ methods = [n \in RegNames |-> NoKey]
    /\ localized_state = EmptyState
    /\ stack = <<>>
    /\ ret = NoRet
    /\ outcome = Idle
    /\ ncalls = 0
    /\ table = NoTable
    /\ padding = NoPadding
    /\ pending = 0

Next ==
    \/ \E r \in Registrations : Register(r[1], r[2])
    \/ \E tokens \in Inputs : Call(tokens)
    \/ CallReturn
    \/ RenderTokensAdd
    \/ RenderTokensReturn
    \/ DispatchUnknown
    \/ DispatchNotCallable
    \/ DispatchRegistered
    \/ DispatchLeaf
    \/ EnterContainer
    \/ EnterEffect
    \/ EnterHeading
    \/ EnterList
    \/ AddEffectExit
    \/ ParagraphExit
    \/ BlockTextExit
    \/ HeadingExit
    \/ BlockQuoteExit
    \/ ListItemBegin
    \/ ListTokAdd
    \/ ListItemEnd
    \/ ListExit

Spec == Init /\ [][Next]_vars

\* the table wrapper on its own: the renderer object takes no step
TableNext ==
    \/ \E total_width \in TotalWidths : RenderTable(total_width)
    \/ \E total_width \in TotalWidths : TableRecompute(total_width)
    \/ DeliverChange

TableSpec == Init /\ [][TableNext]_vars

(***************************************************************************)
(* Properties.                                                             *)
(***************************************************************************)
Finished == outcome.status \in {"returned", "raised"}

EffectFrames == {n \in 1..Len(stack) : stack[n].fn = "_add_effect"}

ListFrames == {n \in 1..Len(stack) : stack[n].fn = "list"}

Last(S) == CHOOSE m \in S : \A n \in S : n <= m

\* the style the innermost effect handler still running has made active, or
\* the style the call found when no effect handler is running
AmbientStyle ==
    IF EffectFrames = {} THEN outcome.entry.oldstyle
    ELSE MergeEffect(stack[Last(EffectFrames)].oldstyle,
                     stack[Last(EffectFrames)].addeffect)

\* C1: while a render call runs, the active effect style is the one made active
\* by the innermost effect handler still running (the style the call started
\* with when there is none): once an emphasis, strong or strikethrough handler
\* has returned, the style is again what it was before the handler was entered,
\* and the next sibling is rendered under the style the previous one was.
C1_StyleRestored == stack # <<>> => GetOldStyle(localized_state) = AmbientStyle

\* C1, its case: an emphasis nested in a strong has just returned, and the
\* style is the strong's again.
C1_Witness ==
    /\ stack # <<>>
    /\ ret.pending
    /\ ret.from = "emphasis"
    /\ EffectFrames # {}
    /\ stack[Last(EffectFrames)].addeffect = "underline"
    /\ localized_state.oldstyle.fg = "default,underline"

\* a discriminant that names no attribute of the renderer and has no
\* registered handler
Unhandled(type) ==
    /\ type \notin Attributes
    /\ type \notin RegNames \/ methods[type] = NoKey

\* a discriminant with neither a built-in nor a registered handler
NoHandler(type) ==
    /\ type \notin BuiltinHandlers
    /\ type \notin RegNames \/ methods[type] = NoKey

RECURSIVE HoldsNoHandlerToken(_)
\* some token of the sequence, at any nesting depth, has no handler
HoldsNoHandlerToken(tokens) ==
    \E n \in 1..Len(tokens) :
        \/ NoHandler(tokens[n].type) /\ tokens[n].type # "list_item"
        \/ HoldsNoHandlerToken(tokens[n].children)

\* C2, as stated: a render call over a token sequence that holds, at any
\* nesting depth, a token with neither a built-in nor a registered handler
\* returns no result.
C2_Original ==
    (Finished /\ HoldsNoHandlerToken(outcome.tokens)) => outcome.status = "raised"

\* C2, amended: whenever render_token is given a token whose discriminant names
\* no attribute of the renderer and has no registered handler, at the top level,
\* in render_children or in an item of a list, the render call fails there
\* with the unknown-discriminant error and returns no result.
C2_UnknownDispatchFails ==
    [][(Dispatching /\ Unhandled(CurTok.type))
         => /\ stack' = <<>>
            /\ outcome'.status = "raised"
            /\ outcome'.err = "AttributeError"
            /\ outcome'.result.w = "None"]_vars

\* C2, its case: the call has failed with the unknown-discriminant error at a
\* token nested in a handler's children.
C2_Witness ==
    /\ outcome.status = "raised"
    /\ outcome.err = "AttributeError"
    /\ outcome.depth >= 4

\* the numbering schemes as the claim C3 gives them
ClaimedSequence(list_marker_type, x) ==
    CASE list_marker_type = "numeric" -> ToString(x)
      [] list_marker_type = "alpha" -> AlphaCycling(x)
      [] list_marker_type = "roman" -> IntToRoman(x)

\* C3: the marker of the item at position k (from 0) of an ordered list with
\* declared start s (1 when none is declared) is scheme(s + k), the bullet
\* character and one space, the alphabetic scheme going back to "a" after "z".
C3_MarkerScheme ==
    \A n \in ListFrames :
        LET frame == stack[n]
            s == IF frame.token.has_start THEN frame.token.start ELSE 1
        IN  (frame.token.ordered /\ frame.j >= 1)
            => frame.marker_text =
                   ClaimedSequence(frame.list_marker_type, s + frame.k - 1)
                   \o frame.token.bullet \o " "

\* C4: a list handler that returns leaves the nesting depth as it found it, the
\* depth is 0 after every successful top-level render, and the items of a list
\* are rendered at the number of the lists around them plus 1.
C4_DepthRestored ==
    /\ (stack # <<>> /\ ret.pending /\ ret.from = "list")
         => localized_state.list_level =
                IF ListFrames = {} THEN outcome.entry.list_level
                ELSE stack[Last(ListFrames)].list_level
    /\ outcome.status = "returned" => localized_state.list_level = 0
    /\ \A n \in ListFrames :
           stack[n].list_level = Cardinality({m \in ListFrames : m <= n})

\* the token render_token has just returned from, to a loop over tokens
JustRendered ==
    /\ stack # <<>>
    /\ ret.pending
    /\ Top.fn = "render_tokens" \/ InItemLoop

\* C5: once a handler is registered for a discriminant, new or built-in, a
\* token of that discriminant is rendered by the registered handler.
C5_RegisteredHandlerInvoked ==
    (JustRendered /\ CurTok.type \in RegNames /\ methods[CurTok.type] # NoKey)
        => ret.from = CurTok.type
           /\ IF methods[CurTok.type] = "none" THEN ret.val.w = "None"
              ELSE ret.val.w = "list" /\ ret.val.items[1].w = "registered"

HoldsNone(units) == \E n \in 1..Len(units) : units[n].w = "None"

\* C6: a missing result (None) is never added to what is being rendered, at the
\* top level, in render_children or in an item of a list: the call fails
\* instead.
C6_MissingResultFails ==
    \A n \in 1..Len(stack) :
        /\ stack[n].fn = "render_tokens" => ~HoldsNone(stack[n].body)
        /\ stack[n].fn = "list" => ~HoldsNone(stack[n].list_item_pile)

\* C7: after a render call has failed, the list nesting depth is what it was
\* before the call.
C7_DepthRestoredOnFailure ==
    outcome.status = "raised" => localized_state.list_level = outcome.entry.list_level

\* C8: every top-level render call starts from a fresh render context (depth 0,
\* no effect style, no heading style), and a list at the top level is returned
\* wrapped in spacers and indentation.
C8_FreshContext ==
    /\ stack # <<>> => outcome.entry = EmptyState
    /\ (stack # <<>> /\ ret.pending /\ ret.from = "list" /\ Len(stack) = 2)
         => ret.val.w = "list"

\* C9: a render call whose first token is a raw-HTML block (block_html) or an
\* error placeholder, followed by tokens that render, does not fail.
C9_DegenerateTokensRender ==
    (Finished /\ outcome.tokens # <<>>
        /\ outcome.tokens[1].type \in {"block_html", "block_error"})
        => outcome.status = "returned"

\* the trimming of a block quote's child units as the claim C10 gives it
ClaimedTrim(units) ==
    LET first == IF units # <<>> /\ units[1].w = "Divider" THEN Tail(units) ELSE units
    IN  IF first # <<>> /\ first[Len(first)].w = "Divider"
        THEN SubSeq(first, 1, Len(first) - 1)
        ELSE first

\* C10: a block quote whose children are rendered returns the spacer, the framed
\* box and the spacer, the box holding the child units less one leading and
\* one trailing spacer.
C10_QuoteTrim ==
    [][Returned("block_quote")
         => /\ ret'.pending
            /\ ret'.from = "block_quote"
            /\ ret'.val = PyList(<<Divider,
                                   [w |-> "LineBox",
                                    contents |-> ClaimedTrim(ret.val.items)],
                                   Divider>>)]_vars

\* the first index of a list: its declared start, 1 when it declares none
FirstIndex(token) == IF token.has_start THEN token.start ELSE 1

RECURSIVE WidestMarker(_, _)
\* the length of the longest marker among the first n items of the list of a
\* frame, and at least 2
WidestMarker(frame, n) ==
    IF n = 0 THEN 2
    ELSE LET rest == WidestMarker(frame, n - 1)
             here == Len(GetMarkerText(frame, FirstIndex(frame.token) + n - 1))
         IN  IF here > rest THEN here ELSE rest

\* C11: in a render call that starts from a fresh context, every item row a
\* list has laid out so far has the marker-column width of the widest marker
\* among all the items of that list (at least 2), so all rows of one list have
\* the same width.
C11_MarkerColumnWidth ==
    outcome.entry = EmptyState =>
        \A n \in ListFrames :
            \A r \in 1..Len(stack[n].outerlist_pile) :
                stack[n].outerlist_pile[r].width
                    = WidestMarker(stack[n], Len(stack[n].token.children))

RECURSIVE EnclosingEffects(_)
\* the effects of the effect handlers running among the first n frames of the
\* stack, the outermost first
EnclosingEffects(n) ==
    IF n = 0 THEN <<>>
    ELSE IF stack[n].fn = "_add_effect"
         THEN Append(EnclosingEffects(n - 1), stack[n].addeffect)
         ELSE EnclosingEffects(n - 1)

RECURSIVE JoinEffects(_)
\* ",e1,e2,..." for the effects e1, e2, ...
JoinEffects(effects) ==
    IF effects = <<>> THEN "" ELSE "," \o Head(effects) \o JoinEffects(Tail(effects))

\* the base colour "default" followed by the effects, outermost first
ClaimedStyle(effects) ==
    [fg |-> "default" \o JoinEffects(effects), bg |-> "default"]

\* C12: while the children of an effect token (emphasis, strong,
\* strikethrough) are rendered, the active style is the base colour "default"
\* followed by the effects of all the enclosing effect tokens, outermost
\* first, and nothing else.
C12_EffectComposition ==
    EffectFrames # {} =>
        GetOldStyle(localized_state) = ClaimedStyle(EnclosingEffects(Len(stack)))

\* The same composition in a render call that starts with no style set.
C12_FromFreshContext ==
    (EffectFrames # {} /\ outcome.entry = EmptyState) => C12_EffectComposition

\* C13: once the wrapper is built and every change notification the table has
\* emitted has been delivered, the wrapper's width is the table's current
\* total width plus 2.
C13_WrapperTracksTable ==
    (table.built /\ pending = 0) => padding.width = table.total_width + 2

C13_Witness ==
    /\ table.built
    /\ pending = 0
    /\ padding.set_by = "table_changed"
    /\ table.total_width = MaxTotalWidth
    /\ padding.width = MaxTotalWidth + 2

====
